---- MODULE Spec2Model ----
(***************************************************************************)
(* A model of src/script.ts: its five services and the page built on them. *)
(*                                                                         *)
(* createFavoritesService: the value kept in localStorage under            *)
(* STORAGE_KEY, the ordered Set of change listeners, and the operations    *)
(* getFavorites, addFavorite, removeFavorite, clearAllFavorites, onChange  *)
(* and the unsubscribe closure onChange returns. The stored value is a     *)
(* text, modelled as a sequence of JSON tokens; JSONstringify builds it    *)
(* and JSONparse reads it back with a recursive descent over the tokens.   *)
(*                                                                         *)
(* createApiService: the calls of fetchRandomPost, each with its           *)
(* AbortController's signal and the await it stands at, cancel, and the    *)
(* post and error listeners.                                               *)
(*                                                                         *)
(* createThemeService: the string stored under THEME_KEY, the system       *)
(* preference, currentTheme, the data-theme attribute, toggle and the      *)
(* handler of the system's change event.                                   *)
(*                                                                         *)
(* Two page contexts on one origin, whose reads and writes of the          *)
(* favorites interleave.                                                   *)
(*                                                                         *)
(* createNotificationService: the current notification, the elements under *)
(* document.body, and the two timers of each show.                         *)
(*                                                                         *)
(* createGeoService: requestLocation and the platform's answers.           *)
(*                                                                         *)
(* createApp and the bootstrap: the lookups of the required elements, the  *)
(* wiring, init, DOMContentLoaded, the handlers that save, remove and      *)
(* clear favorites and render the list, and the fetch button's handler     *)
(* with the answers of the network as they reach the page's listeners.     *)
(***************************************************************************)
EXTENDS Integers, Sequences, FiniteSets, TLC

\* ------------------------------------------------------------ bounds
\* Post ids are 1..MaxId.
MaxId == 3

Ids == 1..MaxId
\* Two readings of Date.now() and two titles: the registry only copies them.
Times == {1, 2}
Titles == {"Tokyo", "Paris"}
Numbers == {0} \cup Ids \cup Times
\* The callbacks callers subscribe: the application's displayFavorites and one more.
Callbacks == {"displayFavorites", "badge"}

\* ------------------------------------------------------------ data
\* interface Post: the registry reads only id and title.
Post == [id : Ids, title : Titles]

\* The saves tried: every post titled "Tokyo" at the first clock reading, and
\* post 1 also retitled "Paris" at the second.
Saves ==
    {[post |-> [id |-> i, title |-> "Tokyo"], now |-> 1] : i \in Ids}
    \cup {[post |-> [id |-> 1, title |-> "Paris"], now |-> 2]}

\* interface Favorite.
Favorite == [id : Ids, title : Titles, timestamp : Times]

\* JavaScript values JSON.parse can return here.
JsNull == [kind |-> "null"]
JsObject == [kind |-> "object"]
JsNumber(n) == [kind |-> "number", num |-> n]
JsArray(items) == [kind |-> "array", items |-> items]

\* What localStorage.getItem(storageKey) returns: null, or the stored text.
NoItem == [has |-> FALSE, text |-> <<>>]
Item(text) == [has |-> TRUE, text |-> text]

\* ------------------------------------------------------------ JSON
Quote(s) == "\"" \o s \o "\""

IsNumberToken(t) == \E n \in Numbers : ToString(n) = t
NumberOf(t) == CHOOSE n \in Numbers : ToString(n) = t
IsStringToken(t) == \E s \in Titles : Quote(s) = t
StringOf(t) == CHOOSE s \in Titles : Quote(s) = t

\* A serialization that writes the id where the timestamp belongs.
stringifyFavoriteUnstamped(fav) ==
    << "{", "\"id\":", ToString(fav.id), ",",
       "\"title\":", Quote(fav.title), ",",
       "\"timestamp\":", ToString(fav.id), "}" >>

\* JSON.stringify of one Favorite: {"id":1,"title":"Tokyo","timestamp":2}
stringifyFavorite(fav) ==
    << "{", "\"id\":", ToString(fav.id), ",",
       "\"title\":", Quote(fav.title), ",",
       "\"timestamp\":", ToString(fav.timestamp), "}" >>

\* The number of tokens of one serialized Favorite.
ObjectLen == Len(stringifyFavorite([id |-> 1, title |-> "Tokyo", timestamp |-> 1]))

RECURSIVE stringifyItems(_)
stringifyItems(favorites) ==
    IF favorites = <<>> THEN <<>>
    ELSE IF Len(favorites) = 1 THEN stringifyFavorite(Head(favorites))
    ELSE stringifyFavorite(Head(favorites)) \o <<",">> \o stringifyItems(Tail(favorites))

\* JSON.stringify(favorites) of an array of Favorite.
JSONstringify(favorites) == <<"[">> \o stringifyItems(favorites) \o <<"]">>

SyntaxError == [ok |-> FALSE, value |-> JsNull]
Parsed(v) == [ok |-> TRUE, value |-> v]

\* The ten tokens of an object with the members id, title, timestamp.
IsFavoriteText(toks) ==
    /\ Len(toks) = ObjectLen
    /\ toks[1] = "{"
    /\ toks[2] = "\"id\":"
    /\ IsNumberToken(toks[3])
    /\ toks[4] = ","
    /\ toks[5] = "\"title\":"
    /\ IsStringToken(toks[6])
    /\ toks[7] = ","
    /\ toks[8] = "\"timestamp\":"
    /\ IsNumberToken(toks[9])
    /\ toks[ObjectLen] = "}"

parseFavorite(toks) ==
    [id |-> NumberOf(toks[3]), title |-> StringOf(toks[6]), timestamp |-> NumberOf(toks[9])]

RECURSIVE parseElements(_, _)
RECURSIVE parseAfterElement(_, _)

\* The elements of an array, after "[" or ",": an object or null.
parseElements(toks, acc) ==
    IF toks = <<>> THEN SyntaxError
    ELSE IF Head(toks) = "null"
        THEN parseAfterElement(Tail(toks), Append(acc, JsNull))
    ELSE IF Len(toks) >= ObjectLen /\ IsFavoriteText(SubSeq(toks, 1, ObjectLen))
        THEN parseAfterElement(SubSeq(toks, ObjectLen + 1, Len(toks)),
                               Append(acc, parseFavorite(SubSeq(toks, 1, ObjectLen))))
    ELSE SyntaxError

parseAfterElement(toks, acc) ==
    IF toks = <<"]">> THEN Parsed(JsArray(acc))
    ELSE IF toks # <<>> /\ Head(toks) = "," THEN parseElements(Tail(toks), acc)
    ELSE SyntaxError

\* JSON.parse(text): the value, or a SyntaxError.
JSONparse(text) ==
    IF text = <<"null">> THEN Parsed(JsNull)
    ELSE IF Len(text) = 1 /\ IsNumberToken(text[1]) THEN Parsed(JsNumber(NumberOf(text[1])))
    ELSE IF text = <<"{", "}">> THEN Parsed(JsObject)
    ELSE IF text = <<"[", "]">> THEN Parsed(JsArray(<<>>))
    ELSE IF text # <<>> /\ Head(text) = "[" THEN parseElements(Tail(text), <<>>)
    ELSE SyntaxError

\* ------------------------------------------------------------ state
VARIABLES
    storage,       \* localStorage's value under STORAGE_KEY: NoItem or Item(text)
    listeners,     \* the Set of change listeners, in insertion order
    handles,       \* the listeners for which a caller holds an unsubscribe closure
    last,          \* what the last call did and returned, as its caller and the
                   \* listeners observed it
    startedClean,  \* whether the page started on an absent or duplicate-free store
    \* createApiService
    requests,              \* the calls of fetchRandomPost so far, oldest first
    controller,            \* the request whose AbortController is held, 0 for null
    postFetchedListeners,  \* the Set of post listeners, in insertion order
    errorListeners,        \* the Set of error listeners, in insertion order
    \* createThemeService
    themeStorage,   \* localStorage's value under THEME_KEY
    system,         \* what matchMedia reports: "dark", "light", or no facility
    currentTheme,   \* the closure variable currentTheme
    dataTheme,      \* the data-theme attribute of the document element
    themeListeners, \* the Set of theme listeners, in insertion order
    themeLast,      \* what the last call of the theme service did
    \* two page contexts on one origin
    tabs,           \* per context: the call it is in the middle of, or made last
    \* createNotificationService
    currentNotification,  \* the closure variable: 0 for null, else a notification
    attached,             \* the notification elements that are children of document.body
    timers,               \* the setTimeout callbacks not yet run
    clock,                \* the time, in ms
    notes,                \* the notifications made so far, oldest first
    \* createGeoService
    geolocation,     \* whether navigator.geolocation exists
    positionCalls,   \* the getCurrentPosition calls not yet answered, oldest first
    geoLast,         \* what the last call or platform answer did
    \* createApp and the bootstrap
    readyState,    \* document.readyState
    markup,        \* the required elements the document's markup holds
    inDocument,    \* the required elements parsed so far
    app,           \* what running the script did: createApp, its lookups, init
    currentPost,   \* the closure variable currentPost, NoPost for null
    rendered,      \* the items of the favorites list element, first to last
    clearDisplay,  \* style.display of the clear-all button, "" before a render
    ui             \* the post's title and id as displayed, and the fetch and save
                   \* buttons: "disabled" or "enabled" once the application has
                   \* set them, "markup" while they are as the markup has them

favoritesVars == <<storage, listeners, handles, last, startedClean>>
apiVars == <<requests, controller, postFetchedListeners, errorListeners>>
themeVars == <<themeStorage, system, currentTheme, dataTheme, themeListeners, themeLast>>
tabVars == <<tabs>>
notificationVars == <<currentNotification, attached, timers, clock, notes>>
geoVars == <<geolocation, positionCalls, geoLast>>
appVars == <<readyState, markup, inDocument, app, currentPost, rendered, clearDisplay, ui>>
pageVars == <<tabVars, notificationVars, geoVars, appVars>>
vars == <<favoritesVars, apiVars, themeVars, pageVars>>

Undefined == [kind |-> "undefined"]

IsFavorites(v) ==
    /\ v.kind = "array"
    /\ \A i \in 1..Len(v.items) : v.items[i] # JsNull

DistinctIds(items) ==
    \A i, j \in 1..Len(items) : i # j => items[i].id # items[j].id

IdsOf(items) == {items[i].id : i \in 1..Len(items)}

\* ------------------------------------------------------------ the service
\* getFavorites(): the value returned and whether the catch branch logged.
getFavorites(stored) ==
    IF ~stored.has \/ stored.text = <<>>
        THEN [value |-> JsArray(<<>>), error |-> FALSE]
    ELSE LET parsed == JSONparse(stored.text) IN
        IF parsed.ok THEN [value |-> parsed.value, error |-> FALSE]
        ELSE [value |-> JsArray(<<>>), error |-> TRUE]

\* A fan-out that walks the Set backwards.
RECURSIVE forEachReversed(_, _)
forEachReversed(ls, throwers) ==
    IF ls = <<>> THEN <<>>
    ELSE IF ls[Len(ls)] \in throwers THEN <<ls[Len(ls)]>>
    ELSE <<ls[Len(ls)]>> \o forEachReversed(SubSeq(ls, 1, Len(ls) - 1), throwers)

\* listeners.forEach(listener => listener(favorites)): the listeners called, in
\* Set order, up to and including the first one that throws.
RECURSIVE forEach(_, _)
forEach(ls, throwers) ==
    IF ls = <<>> THEN <<>>
    ELSE IF Head(ls) \in throwers THEN <<Head(ls)>>
    ELSE <<Head(ls)>> \o forEach(Tail(ls), throwers)

\* A writeFavorites whose fan-out stands after the try block: the listeners are
\* called whether or not setItem threw.
writeFavoritesNotifyAnyway(favorites, stored, ls, accepts, throwers) ==
    LET called == forEach(ls, throwers) IN
    [storage |-> IF accepts THEN Item(JSONstringify(favorites)) ELSE stored,
     stored |-> accepts, called |-> called,
     error |-> ~accepts \/ (called # <<>> /\ called[Len(called)] \in throwers)]

\* A writeFavorites that stores and forgets the fan-out.
writeFavoritesSilent(favorites, stored, ls, accepts, throwers) ==
    IF ~accepts
        THEN [storage |-> stored, stored |-> FALSE, called |-> <<>>, error |-> TRUE]
    ELSE [storage |-> Item(JSONstringify(favorites)), stored |-> TRUE,
          called |-> <<>>, error |-> FALSE]

\* A writeFavorites that puts the old value back when a listener throws.
writeFavoritesRollback(favorites, stored, ls, accepts, throwers) ==
    IF ~accepts
        THEN [storage |-> stored, stored |-> FALSE, called |-> <<>>, error |-> TRUE]
    ELSE LET called == forEach(ls, throwers)
             threw == called # <<>> /\ called[Len(called)] \in throwers
         IN
        [storage |-> IF threw THEN stored ELSE Item(JSONstringify(favorites)),
         stored |-> TRUE, called |-> called, error |-> threw]

\* A writeFavorites that keeps the stored entries it was not given.
writeFavoritesMerging(favorites, stored, ls, accepts, throwers) ==
    LET there == getFavorites(stored).value.items
        kept == SelectSeq(there, LAMBDA fav : fav.id \notin IdsOf(favorites))
        called == forEach(ls, throwers)
    IN
    [storage |-> Item(JSONstringify(favorites \o kept)), stored |-> TRUE,
     called |-> called, error |-> FALSE]

\* writeFavorites(favorites): setItem, then the fan-out, both inside one try.
\* accepts: whether setItem stores the text; otherwise it throws and the stored
\* value stays. throwers: the listeners that throw when called.
writeFavorites(favorites, stored, ls, accepts, throwers) ==
    IF ~accepts
        THEN [storage |-> stored, stored |-> FALSE, called |-> <<>>, error |-> TRUE]
    ELSE LET called == forEach(ls, throwers) IN
        [storage |-> Item(JSONstringify(favorites)), stored |-> TRUE, called |-> called,
         error |-> called # <<>> /\ called[Len(called)] \in throwers]

\* favorites.some(fav => fav.id === post.id): reading .id of null is a TypeError.
RECURSIVE someId(_, _)
someId(items, id) ==
    IF items = <<>> THEN "false"
    ELSE IF Head(items) = JsNull THEN "TypeError"
    ELSE IF Head(items).id = id THEN "true"
    ELSE someId(Tail(items), id)

\* An addFavorite without its duplicate check.
alreadyExistsNever(favorites, id) ==
    IF favorites.kind # "array" \/ someId(favorites.items, id) = "TypeError"
        THEN "TypeError"
    ELSE "false"

\* alreadyExists: a value that is no array has no method some.
alreadyExists(favorites, id) ==
    IF favorites.kind # "array" THEN "TypeError" ELSE someId(favorites.items, id)

\* push in place of unshift: the new entry goes last.
unshiftAsPush(items, newFavorite) == Append(items, newFavorite)

\* favorites.unshift(newFavorite)
unshift(items, newFavorite) == <<newFavorite>> \o items

\* favorites.filter(fav => fav.id !== id) visits every element.
filterThrows(favorites) ==
    \/ favorites.kind # "array"
    \/ \E i \in 1..Len(favorites.items) : favorites.items[i] = JsNull

\* A filter whose test is inverted: it keeps the entry to remove.
filterInverted(items, id) == SelectSeq(items, LAMBDA fav : fav.id = id)

\* A filter that also turns the kept entries around.
RECURSIVE filterReversing(_, _)
filterReversing(items, id) ==
    IF items = <<>> THEN <<>>
    ELSE IF Head(items).id = id THEN filterReversing(Tail(items), id)
    ELSE Append(filterReversing(Tail(items), id), Head(items))

filter(items, id) == SelectSeq(items, LAMBDA fav : fav.id # id)

\* The record of a call: its arguments, the store and the listeners it found,
\* what it returned or threw, the store accesses it made, the listeners it
\* called with which array, and what it logged with console.error.
Call(op) ==
    [op |-> op, id |-> 0, title |-> "", now |-> 0, listener |-> "",
     pre |-> storage, subscribed |-> listeners,
     ret |-> FALSE, value |-> Undefined, threw |-> FALSE,
     payload |-> <<>>, called |-> <<>>, stored |-> FALSE,
     getItems |-> 0, setItems |-> 0, errors |-> <<>>]

ReadError(got) == IF got.error THEN <<"Erro ao ler favoritos:">> ELSE <<>>
WriteError(w) == IF w.error THEN <<"Erro ao salvar favoritos:">> ELSE <<>>

\* ------------------------------------------------------------ operations
\* A getFavorites that replaces a text it cannot parse by an empty array.
GetFavoritesRepairing ==
    LET got == getFavorites(storage) IN
    /\ storage' = IF got.error THEN Item(JSONstringify(<<>>)) ELSE storage
    /\ last' = [Call("getFavorites") EXCEPT
                   !.value = got.value, !.getItems = 1, !.errors = ReadError(got)]
    /\ UNCHANGED <<listeners, handles, startedClean, apiVars, themeVars, pageVars>>

\* favoritesService.getFavorites()
GetFavorites ==
    LET got == getFavorites(storage) IN
    /\ last' = [Call("getFavorites") EXCEPT
                   !.value = got.value, !.getItems = 1, !.errors = ReadError(got)]
    /\ UNCHANGED <<storage, listeners, handles, startedClean, apiVars, themeVars, pageVars>>

Members(seq) == {seq[i] : i \in 1..Len(seq)}

\* What the platform and the callers may do to a write: setItem stores the text
\* and every listener returns; or setItem throws (quota exceeded); or one of
\* the subscribed listeners throws when called.
Healthy == [accepts |-> TRUE, throwers |-> {}]
Environments(faults) ==
    IF faults
        THEN {Healthy, [accepts |-> FALSE, throwers |-> {}]}
             \cup {[accepts |-> TRUE, throwers |-> {l}] : l \in Members(listeners)}
    ELSE {Healthy}

\* What addFavorite(post) does to the store and returns, Date.now() reading
\* now.
addFavorite(post, now, faults) ==
    LET got == getFavorites(storage)
        favorites == got.value
        exists == alreadyExists(favorites, post.id)
        call == [Call("addFavorite") EXCEPT
                    !.id = post.id, !.title = post.title, !.now = now,
                    !.getItems = 1, !.errors = ReadError(got)]
    IN
    /\ IF exists = "TypeError" THEN
            /\ storage' = storage
            /\ last' = [call EXCEPT !.threw = TRUE]
       ELSE IF exists = "true" THEN
            /\ storage' = storage
            /\ last' = [call EXCEPT !.ret = FALSE]
       ELSE \E env \in Environments(faults) :
            LET newFavorite == [id |-> post.id, title |-> post.title, timestamp |-> now]
                updated == unshift(favorites.items, newFavorite)
                w == writeFavorites(updated, storage, listeners, env.accepts, env.throwers)
            IN
            /\ storage' = w.storage
            /\ last' = [call EXCEPT
                           !.ret = TRUE, !.payload = updated, !.called = w.called,
                           !.stored = w.stored, !.setItems = 1,
                           !.errors = ReadError(got) \o WriteError(w)]

\* favoritesService.addFavorite(post)
AddFavorite(post, now, faults) ==
    /\ addFavorite(post, now, faults)
    /\ UNCHANGED <<listeners, handles, startedClean, apiVars, themeVars, pageVars>>

\* What removeFavorite(id) does to the store.
removeFavorite(id, faults) ==
    LET got == getFavorites(storage)
        favorites == got.value
        call == [Call("removeFavorite") EXCEPT
                    !.id = id, !.getItems = 1, !.errors = ReadError(got)]
    IN
    /\ IF filterThrows(favorites) THEN
            /\ storage' = storage
            /\ last' = [call EXCEPT !.threw = TRUE]
       ELSE \E env \in Environments(faults) :
            LET filtered == filter(favorites.items, id)
                w == writeFavorites(filtered, storage, listeners, env.accepts, env.throwers)
            IN
            /\ storage' = w.storage
            /\ last' = [call EXCEPT
                           !.payload = filtered, !.called = w.called,
                           !.stored = w.stored, !.setItems = 1,
                           !.errors = ReadError(got) \o WriteError(w)]

\* favoritesService.removeFavorite(id)
RemoveFavorite(id, faults) ==
    /\ removeFavorite(id, faults)
    /\ UNCHANGED <<listeners, handles, startedClean, apiVars, themeVars, pageVars>>

\* A clearAllFavorites that reads the collection before it empties it.
ClearAllFavoritesReading(faults) ==
    \E env \in Environments(faults) :
    LET w == writeFavorites(<<>>, storage, listeners, env.accepts, env.throwers) IN
    /\ storage' = w.storage
    /\ last' = [Call("clearAllFavorites") EXCEPT
                   !.called = w.called, !.stored = w.stored,
                   !.getItems = 1, !.setItems = 1,
                   !.errors = WriteError(w)]
    /\ UNCHANGED <<listeners, handles, startedClean, apiVars, themeVars, pageVars>>

\* What clearAllFavorites() does to the store.
clearAllFavorites(faults) ==
    \E env \in Environments(faults) :
    LET w == writeFavorites(<<>>, storage, listeners, env.accepts, env.throwers) IN
    /\ storage' = w.storage
    /\ last' = [Call("clearAllFavorites") EXCEPT
                   !.called = w.called, !.stored = w.stored, !.setItems = 1,
                   !.errors = WriteError(w)]

\* favoritesService.clearAllFavorites()
ClearAllFavorites(faults) ==
    /\ clearAllFavorites(faults)
    /\ UNCHANGED <<listeners, handles, startedClean, apiVars, themeVars, pageVars>>

\* An onChange that keeps its listeners in an array: push adds one more.
OnChangePushing(listener) ==
    /\ listeners' = Append(listeners, listener)
    /\ handles' = handles \cup {listener}
    /\ last' = [Call("onChange") EXCEPT !.listener = listener]
    /\ UNCHANGED <<storage, startedClean, apiVars, themeVars, pageVars>>

\* favoritesService.onChange(listener): Set.add keeps a member where it is.
OnChange(listener) ==
    /\ listeners' = IF listener \in Members(listeners) THEN listeners
                    ELSE Append(listeners, listener)
    /\ handles' = handles \cup {listener}
    /\ last' = [Call("onChange") EXCEPT !.listener = listener]
    /\ UNCHANGED <<storage, startedClean, apiVars, themeVars, pageVars>>

\* An unsubscribe closure that deletes the listener subscribed last, whoever
\* it is.
UnsubscribeNewest(listener) ==
    /\ listener \in handles
    /\ listeners' = SubSeq(listeners, 1, Len(listeners) - 1)
    /\ last' = [Call("unsubscribe") EXCEPT
                   !.listener = listener, !.ret = listener \in Members(listeners)]
    /\ UNCHANGED <<storage, handles, startedClean, apiVars, themeVars, pageVars>>

\* The closure onChange returned: () => listeners.delete(listener).
Unsubscribe(listener) ==
    /\ listener \in handles
    /\ listeners' = SelectSeq(listeners, LAMBDA l : l # listener)
    /\ last' = [Call("unsubscribe") EXCEPT
                   !.listener = listener, !.ret = listener \in Members(listeners)]
    /\ UNCHANGED <<storage, handles, startedClean, apiVars, themeVars, pageVars>>

\* ------------------------------------------------------------ createApiService
\* fetchRandomPost is called at most MaxRequests times.
MaxRequests == 3

\* The listeners the application subscribes; it drops the closures that
\* onPostFetched and onError return.
PostCallbacks == {"onPostFetched"}
ErrorCallbacks == {"onPostFetchError"}

\* What fetch() settles with when its signal is not aborted: a response whose
\* ok is true (status 200..299), a response whose ok is false, a rejection
\* (no network); and what response.json() settles with: the decoded body, or
\* a SyntaxError.
Responses == {"ok", "not ok", "failed"}
Bodies == {"post", "garbage"}

\* One call of fetchRandomPost: where its body stands ("fetch": awaiting
\* fetch(), "json": awaiting response.json(), "settled": returned or threw),
\* its controller's signal, what the network answered, the emit calls it made
\* and the listeners they called, and the promise the call returned.
\* superseded and cancelled tell that fetchRandomPost, or cancel, was called
\* while this call was in flight.
NewRequest ==
    [phase |-> "fetch", aborted |-> FALSE,
     superseded |-> FALSE, cancelled |-> FALSE,
     response |-> "none", body |-> "none",
     emitted |-> <<>>, posted |-> <<>>, failed |-> <<>>,
     message |-> "", cause |-> "",
     promise |-> "pending"]

InFlight(request) == request.phase # "settled"

\* A controller whose abort() does nothing.
abortNothing(reqs, c) == reqs

\* controller.abort(), for the controller held (none when c is 0).
abort(reqs, c) ==
    IF c = 0 THEN reqs ELSE [reqs EXCEPT ![c].aborted = TRUE]

\* The in-flight calls, noted as overtaken by a new call or by cancel.
Noted(reqs, field) ==
    [r \in DOMAIN reqs |->
        IF InFlight(reqs[r])
            THEN IF field = "superseded"
                     THEN [reqs[r] EXCEPT !.superseded = TRUE]
                     ELSE [reqs[r] EXCEPT !.cancelled = TRUE]
        ELSE reqs[r]]

Threw(called, throwers) == called # <<>> /\ called[Len(called)] \in throwers

\* The throwing listeners of one emit: none, or one of the subscribed.
Throwers(ls, faults) ==
    IF faults THEN {{}} \cup {{l} : l \in Members(ls)} ELSE {{}}

\* A catch block that swallows every error.
catchSilently(request, cause, ls, throwers) ==
    [request EXCEPT !.phase = "settled", !.cause = cause, !.promise = "resolved"]

\* The catch block for an error that is no AbortError:
\* emitError('Erro ao buscar postagem', err). A listener that throws here
\* throws out of the async function: its promise rejects.
catch(request, cause, ls, throwers) ==
    LET called == forEach(ls, throwers) IN
    [request EXCEPT
        !.phase = "settled",
        !.emitted = @ \o <<"error">>,
        !.failed = called,
        !.message = "Erro ao buscar postagem",
        !.cause = cause,
        !.promise = IF Threw(called, throwers) THEN "rejected" ELSE "resolved"]

\* What fetchRandomPost() does up to its first await.
fetchRandomPost ==
    /\ Len(requests) < MaxRequests
    /\ requests' = Append(Noted(abort(requests, controller), "superseded"), NewRequest)
    /\ controller' = Len(requests) + 1

\* apiService.fetchRandomPost()
FetchRandomPost ==
    /\ fetchRandomPost
    /\ UNCHANGED <<postFetchedListeners, errorListeners, favoritesVars, themeVars, pageVars>>

\* apiService.cancel()
Cancel ==
    /\ requests' = Noted(abort(requests, controller), "cancelled")
    /\ UNCHANGED <<controller, postFetchedListeners, errorListeners, favoritesVars, themeVars, pageVars>>

\* apiService.onPostFetched(listener)
OnPostFetched(listener) ==
    /\ postFetchedListeners' =
           IF listener \in Members(postFetchedListeners) THEN postFetchedListeners
           ELSE Append(postFetchedListeners, listener)
    /\ UNCHANGED <<requests, controller, errorListeners, favoritesVars, themeVars, pageVars>>

\* apiService.onError(listener)
OnError(listener) ==
    /\ errorListeners' =
           IF listener \in Members(errorListeners) THEN errorListeners
           ELSE Append(errorListeners, listener)
    /\ UNCHANGED <<requests, controller, postFetchedListeners, favoritesVars, themeVars, pageVars>>

\* A catch block that reports the AbortError like any other error.
AbortErrorReported(r) ==
    /\ r \in DOMAIN requests
    /\ InFlight(requests[r])
    /\ requests[r].aborted
    /\ requests' = [requests EXCEPT
                       ![r] = catch(requests[r], "AbortError", errorListeners, {})]
    /\ UNCHANGED <<controller, postFetchedListeners, errorListeners, favoritesVars, themeVars, pageVars>>

\* The pending await of a call whose signal is aborted rejects with an
\* AbortError: the catch block returns.
AbortError(r) ==
    /\ r \in DOMAIN requests
    /\ InFlight(requests[r])
    /\ requests[r].aborted
    /\ requests' = [requests EXCEPT
                       ![r].phase = "settled", ![r].cause = "AbortError",
                       ![r].promise = "resolved"]
    /\ UNCHANGED <<controller, postFetchedListeners, errorListeners, favoritesVars, themeVars, pageVars>>

\* What the call does when fetch() settles: on to its next await, or the
\* catch block.
fetchSettles(r, response, faults) ==
    /\ r \in DOMAIN requests
    /\ requests[r].phase = "fetch"
    /\ ~requests[r].aborted
    /\ LET request == [requests[r] EXCEPT !.response = response] IN
       IF response = "ok"
           THEN requests' = [requests EXCEPT ![r] = [request EXCEPT !.phase = "json"]]
       ELSE \E throwers \in Throwers(errorListeners, faults) :
           requests' = [requests EXCEPT ![r] =
               catch(request,
                     IF response = "not ok" THEN "HTTP error! status" ELSE "TypeError",
                     errorListeners, throwers)]

\* fetch() settles and the call runs on to its next await or to its end.
FetchSettles(r, response, faults) ==
    /\ fetchSettles(r, response, faults)
    /\ UNCHANGED <<controller, postFetchedListeners, errorListeners, favoritesVars, themeVars, pageVars>>

\* What the call does when response.json() settles: emitPost(post), inside
\* the try block, or the catch block for the SyntaxError.
jsonSettles(r, body, faults) ==
    /\ r \in DOMAIN requests
    /\ requests[r].phase = "json"
    /\ ~requests[r].aborted
    /\ LET request == [requests[r] EXCEPT !.body = body] IN
       IF body = "garbage"
           THEN \E throwers \in Throwers(errorListeners, faults) :
               requests' = [requests EXCEPT ![r] =
                   catch(request, "SyntaxError", errorListeners, throwers)]
       ELSE \E throwers \in Throwers(postFetchedListeners, faults) :
           LET called == forEach(postFetchedListeners, throwers)
               emitted == [request EXCEPT !.emitted = <<"post">>, !.posted = called]
           IN
           IF Threw(called, throwers)
               THEN \E others \in Throwers(errorListeners, faults) :
                   requests' = [requests EXCEPT ![r] =
                       catch(emitted, "listener", errorListeners, others)]
           ELSE requests' = [requests EXCEPT ![r] =
                   [emitted EXCEPT !.phase = "settled", !.promise = "resolved"]]

\* response.json() settles and the call runs to its end.
JsonSettles(r, body, faults) ==
    /\ jsonSettles(r, body, faults)
    /\ UNCHANGED <<controller, postFetchedListeners, errorListeners, favoritesVars, themeVars, pageVars>>

\* ------------------------------------------------------------ createThemeService
\* type Theme
Themes == {"dark", "light"}

\* What localStorage.getItem(themeKey) returns: null, or the stored string.
NoValue == [has |-> FALSE, text |-> ""]
Value(text) == [has |-> TRUE, text |-> text]

\* The strings an earlier session, or anyone else, may have left under the key.
InitialThemes == {NoValue, Value("dark"), Value("light"), Value("blue"), Value("")}

\* What matchMedia('(prefers-color-scheme: dark)') reports; "none": the
\* window has no matchMedia.
Systems == {"dark", "light", "none"}

ThemeCallbacks == {"updateIcon", "badge"}

\* getSystemTheme(): the optional chain is undefined without matchMedia.
getSystemTheme(sys) == IF sys = "dark" THEN "dark" ELSE "light"

\* A getSavedTheme that trusts whatever string is stored.
getSavedThemeUnchecked(stored) == stored

\* getSavedTheme(): the stored string if it is a Theme, else null.
getSavedTheme(stored) ==
    IF stored.has /\ (stored.text = "dark" \/ stored.text = "light") THEN stored
    ELSE NoValue

\* getSavedTheme() ?? getSystemTheme()
initialTheme(stored, sys) ==
    LET saved == getSavedTheme(stored) IN
    IF saved.has THEN saved.text ELSE getSystemTheme(sys)

\* A setTheme that keeps the theme to itself: nothing is stored.
setThemeUnsaved(theme, stored, ls) ==
    [currentTheme |-> theme, themeStorage |-> stored, dataTheme |-> theme,
     called |-> forEach(ls, {}), payload |-> theme]

\* setTheme(theme): the closure variable, the store, the document attribute
\* and the fan-out.
setTheme(theme, stored, ls) ==
    [currentTheme |-> theme, themeStorage |-> Value(theme), dataTheme |-> theme,
     called |-> forEach(ls, {}), payload |-> theme]

\* currentTheme === 'dark' ? 'light' : 'dark'
otherTheme(theme) == IF theme = "dark" THEN "light" ELSE "dark"

\* The record of a call of the theme service: what it found, the listeners it
\* called, the call before it, and whether the user had by then made an
\* explicit choice (a Theme stored at startup, or a toggle).
ThemeCall(op) ==
    [op |-> op, before |-> currentTheme, stored |-> themeStorage,
     subscribed |-> themeListeners, called |-> <<>>, payload |-> "",
     listener |-> "", explicit |-> themeLast.explicit, threw |-> FALSE,
     earlier |-> [op |-> themeLast.op, before |-> themeLast.before]]

\* themeService.toggle()
Toggle ==
    LET set == setTheme(otherTheme(currentTheme), themeStorage, themeListeners) IN
    /\ currentTheme' = set.currentTheme
    /\ themeStorage' = set.themeStorage
    /\ dataTheme' = set.dataTheme
    /\ themeLast' = [ThemeCall("toggle") EXCEPT
                        !.called = set.called, !.payload = set.payload,
                        !.explicit = TRUE]
    /\ UNCHANGED <<system, themeListeners, favoritesVars, apiVars, pageVars>>

\* The 'change' event of the media query list: the system preference is now
\* sys, and the handler registered at construction runs.
SystemChange(sys) ==
    /\ system # "none"
    /\ sys \in Themes \ {system}
    /\ system' = sys
    /\ IF ~getSavedTheme(themeStorage).has
           THEN LET set == setTheme(getSystemTheme(sys), themeStorage, themeListeners) IN
                /\ currentTheme' = set.currentTheme
                /\ themeStorage' = set.themeStorage
                /\ dataTheme' = set.dataTheme
                /\ themeLast' = [ThemeCall("change") EXCEPT
                                   !.called = set.called, !.payload = set.payload]
       ELSE /\ UNCHANGED <<currentTheme, themeStorage, dataTheme>>
            /\ themeLast' = ThemeCall("change")
    /\ UNCHANGED <<themeListeners, favoritesVars, apiVars, pageVars>>

\* setTheme(theme) when localStorage.setItem throws (quota exceeded, storage
\* disabled): currentTheme is already assigned; the store, the document
\* attribute and the listeners are not reached, and the exception leaves
\* setTheme.
setThemeThrows(theme, stored, attribute) ==
    [currentTheme |-> theme, themeStorage |-> stored, dataTheme |-> attribute,
     called |-> <<>>, payload |-> ""]

\* themeService.toggle() on a store that refuses the write.
ToggleThrows ==
    LET set == setThemeThrows(otherTheme(currentTheme), themeStorage, dataTheme) IN
    /\ currentTheme' = set.currentTheme
    /\ themeStorage' = set.themeStorage
    /\ dataTheme' = set.dataTheme
    /\ themeLast' = [ThemeCall("toggle") EXCEPT
                        !.called = set.called, !.payload = set.payload,
                        !.threw = TRUE]
    /\ UNCHANGED <<system, themeListeners, favoritesVars, apiVars, pageVars>>

\* The 'change' event on a store that refuses the write.
SystemChangeThrows(sys) ==
    /\ system # "none"
    /\ sys \in Themes \ {system}
    /\ ~getSavedTheme(themeStorage).has
    /\ system' = sys
    /\ LET set == setThemeThrows(getSystemTheme(sys), themeStorage, dataTheme) IN
        /\ currentTheme' = set.currentTheme
        /\ themeStorage' = set.themeStorage
        /\ dataTheme' = set.dataTheme
        /\ themeLast' = [ThemeCall("change") EXCEPT
                           !.called = set.called, !.payload = set.payload,
                           !.threw = TRUE]
    /\ UNCHANGED <<themeListeners, favoritesVars, apiVars, pageVars>>

\* themeService.onChange(listener)
ThemeOnChange(listener) ==
    /\ themeListeners' =
           IF listener \in Members(themeListeners) THEN themeListeners
           ELSE Append(themeListeners, listener)
    /\ themeLast' = [ThemeCall("onChange") EXCEPT !.listener = listener]
    /\ UNCHANGED <<themeStorage, system, currentTheme, dataTheme, favoritesVars, apiVars, pageVars>>

\* The closure themeService.onChange returned, while it still has something
\* to delete.
ThemeUnsubscribe(listener) ==
    /\ listener \in Members(themeListeners)
    /\ themeListeners' = SelectSeq(themeListeners, LAMBDA l : l # listener)
    /\ themeLast' = [ThemeCall("unsubscribe") EXCEPT !.listener = listener]
    /\ UNCHANGED <<themeStorage, system, currentTheme, dataTheme, favoritesVars, apiVars, pageVars>>

\* ------------------------------------------------------------ two page contexts
\* Two tabs of the same origin share localStorage; each runs its own copy of
\* the script, and another tab's getItem or setItem can fall between the
\* getItem and the setItem of one addFavorite or removeFavorite.
Tabs == {"A", "B"}

\* The posts the contexts save and the ids they remove: the first and the
\* last id, and the first post also under its other title.
TabSaves == {save \in Saves : save.post.id \in {1, MaxId}}
TabIds == {1, MaxId}

\* A context between calls; after a call: what it was, the collection it
\* computed from its read and passed to setItem, and what add returned.
IdleTab ==
    [pc |-> "idle", op |-> "none", id |-> 0, computed |-> <<>>,
     ret |-> FALSE, threw |-> FALSE]

\* addFavorite(post) in context t, up to and without writeFavorites.
TabAddReads(t, post, now) ==
    LET favorites == getFavorites(storage).value
        exists == alreadyExists(favorites, post.id)
        call == [tabs[t] EXCEPT !.op = "addFavorite", !.id = post.id,
                                !.ret = FALSE, !.threw = FALSE]
    IN
    /\ tabs[t].pc = "idle"
    /\ tabs' = [tabs EXCEPT ![t] =
           IF exists = "TypeError" THEN [call EXCEPT !.threw = TRUE]
           ELSE IF exists = "true" THEN call
           ELSE [call EXCEPT
                    !.pc = "write",
                    !.computed = unshift(favorites.items,
                        [id |-> post.id, title |-> post.title, timestamp |-> now])]]
    /\ UNCHANGED <<favoritesVars, apiVars, themeVars, notificationVars, geoVars, appVars>>

\* removeFavorite(id) in context t, up to and without writeFavorites.
TabRemoveReads(t, id) ==
    LET favorites == getFavorites(storage).value
        call == [tabs[t] EXCEPT !.op = "removeFavorite", !.id = id,
                                !.ret = FALSE, !.threw = FALSE]
    IN
    /\ tabs[t].pc = "idle"
    /\ tabs' = [tabs EXCEPT ![t] =
           IF filterThrows(favorites) THEN [call EXCEPT !.threw = TRUE]
           ELSE [call EXCEPT !.pc = "write", !.computed = filter(favorites.items, id)]]
    /\ UNCHANGED <<favoritesVars, apiVars, themeVars, notificationVars, geoVars, appVars>>

\* writeFavorites of the call context t is in the middle of; addFavorite then
\* returns true.
TabWrites(t) ==
    LET w == writeFavorites(tabs[t].computed, storage, <<>>, TRUE, {}) IN
    /\ tabs[t].pc = "write"
    /\ storage' = w.storage
    /\ tabs' = [tabs EXCEPT ![t] =
           [@ EXCEPT !.pc = "idle", !.ret = (tabs[t].op = "addFavorite")]]
    /\ UNCHANGED <<listeners, handles, last, startedClean, apiVars, themeVars, notificationVars, geoVars, appVars>>

\* clearAllFavorites() in context t: a write with no read before it.
TabClears(t) ==
    LET w == writeFavorites(<<>>, storage, <<>>, TRUE, {}) IN
    /\ tabs[t].pc = "idle"
    /\ storage' = w.storage
    /\ tabs' = [tabs EXCEPT ![t] =
           [@ EXCEPT !.op = "clearAllFavorites", !.id = 0, !.computed = <<>>,
                     !.ret = FALSE, !.threw = FALSE]]
    /\ UNCHANGED <<listeners, handles, last, startedClean, apiVars, themeVars, notificationVars, geoVars, appVars>>

\* ------------------------------------------------------------ createNotificationService
\* show() is called at most MaxShows times.
MaxShows == 3

\* The default of show's timeout parameter, the delay of the inner setTimeout,
\* a shorter timeout a caller may pass, and the time a caller may let pass
\* between two calls.
DefaultTimeout == 3000
FadeOut == 300
ShortTimeout == 1000
Pause == 2000

Timeouts == {DefaultTimeout, ShortTimeout}

Min(S) == CHOOSE x \in S : \A y \in S : x <= y

\* A show that leaves the notification on display where it is.
removeCurrentNever(elements, current) == elements

\* if (currentNotification) { currentNotification.remove(); ... }
removeCurrent(elements, current) ==
    IF current # 0 THEN elements \ {current} ELSE elements

\* A removal callback without its identity check.
untrackAlways(current, notification) == 0

\* if (currentNotification === notification) currentNotification = null
untrack(current, notification) ==
    IF current = notification THEN 0 ELSE current

\* What show(message, timeout) does.
show(timeout) ==
    LET notification == Len(notes) + 1 IN
    /\ Len(notes) < MaxShows
    /\ attached' = removeCurrent(attached, currentNotification) \cup {notification}
    /\ currentNotification' = notification
    /\ timers' = timers \cup
           {[notification |-> notification, stage |-> "fade", due |-> clock + timeout]}
    /\ notes' = Append(notes, [timeout |-> timeout, shownAt |-> clock, fadeOut |-> FALSE])
    /\ UNCHANGED clock

\* notificationService.show(message, timeout)
Show(timeout) ==
    /\ show(timeout)
    /\ UNCHANGED <<favoritesVars, apiVars, themeVars, tabVars, geoVars, appVars>>

\* A timer that is due runs. The outer callback adds the class fade-out and
\* starts the inner timer; the inner one un-tracks the notification if it is
\* still the current one, and removes the element.
Fires(timer) ==
    /\ timer \in timers
    /\ timer.due <= clock
    /\ IF timer.stage = "fade"
           THEN /\ notes' = [notes EXCEPT ![timer.notification].fadeOut = TRUE]
                /\ timers' = (timers \ {timer}) \cup
                       {[notification |-> timer.notification, stage |-> "remove",
                         due |-> clock + FadeOut]}
                /\ UNCHANGED <<currentNotification, attached>>
       ELSE /\ currentNotification' = untrack(currentNotification, timer.notification)
            /\ attached' = attached \ {timer.notification}
            /\ timers' = timers \ {timer}
            /\ UNCHANGED notes
    /\ UNCHANGED <<clock, favoritesVars, apiVars, themeVars, tabVars, geoVars, appVars>>

\* Time passes, up to the next timer that is due: to that timer, or by a
\* caller's pause if that ends sooner.
Elapses(to) ==
    /\ timers # {}
    /\ to > clock
    /\ to <= Min({timer.due : timer \in timers})
    /\ clock' = to
    /\ UNCHANGED <<currentNotification, attached, timers, notes,
                   favoritesVars, apiVars, themeVars, tabVars, geoVars, appVars>>

\* ------------------------------------------------------------ createGeoService
\* getCurrentPosition is outstanding at most MaxPositionCalls times.
MaxPositionCalls == 2

\* The callbacks argument of requestLocation: left out, given with onSuccess
\* and onError, or given with onLoading too.
CallbackSets == {"none", "required", "all"}

\* GeolocationPositionError.code
ErrorCodes == {"PERMISSION_DENIED", "POSITION_UNAVAILABLE", "TIMEOUT"}

\* What the platform's position carries in coords, and the Coordinates the
\* service hands on.
Positions ==
    {[latitude |-> 1, longitude |-> 2, accuracy |-> 3],
     [latitude |-> 2, longitude |-> 1, accuracy |-> 3]}
NoCoordinates == [latitude |-> 0, longitude |-> 0]

\* The timeout requestLocation asks of the platform unless its caller says
\* otherwise.
PositionTimeout == 10000

\* The options argument of requestLocation: the application's {}, or a
\* timeout of the caller's own.
OptionSets == {[has |-> FALSE, timeout |-> 0], [has |-> TRUE, timeout |-> ShortTimeout]}

\* { enableHighAccuracy: true, timeout: 10000, maximumAge: 0, ...options }
spreadOptions(options) ==
    [enableHighAccuracy |-> TRUE,
     timeout |-> IF options.has THEN options.timeout ELSE PositionTimeout,
     maximumAge |-> 0]

\* The messages, without their diacritics.
NotSupported == "Seu navegador nao suporta geolocalizacao"
PermissionDenied == "Permissao negada. Por favor, permita o acesso a localizacao."
PositionUnavailable == "Localizacao indisponivel."
TimedOut == "Tempo esgotado ao buscar localizacao."
GenericError == "Erro ao obter localizacao"

\* An error callback that tells every code the same.
errorMessageGeneric(code) == GenericError

\* The switch over error.code.
errorMessage(code) ==
    IF code = "PERMISSION_DENIED" THEN PermissionDenied
    ELSE IF code = "POSITION_UNAVAILABLE" THEN PositionUnavailable
    ELSE IF code = "TIMEOUT" THEN TimedOut
    ELSE GenericError

\* The record of a call of requestLocation or of a platform answer: the
\* callbacks it was given, whether it raised, whether it called onLoading and
\* getCurrentPosition, and the callback it called with its argument.
GeoCall(op, callbacks) ==
    [op |-> op, callbacks |-> callbacks, code |-> "", threw |-> FALSE,
     loading |-> FALSE, platform |-> FALSE,
     callback |-> "", message |-> "", coords |-> NoCoordinates]

\* What requestLocation(options, callbacks) does before it returns.
requestLocation(options, callbacks) ==
    /\ Len(positionCalls) < MaxPositionCalls
    /\ IF ~geolocation
           THEN /\ geoLast' =
                       IF callbacks = "none" THEN GeoCall("requestLocation", callbacks)
                       ELSE [GeoCall("requestLocation", callbacks) EXCEPT
                                !.callback = "onError", !.message = NotSupported]
                /\ UNCHANGED positionCalls
       ELSE /\ geoLast' = [GeoCall("requestLocation", callbacks) EXCEPT
                              !.loading = (callbacks = "all"), !.platform = TRUE]
            /\ positionCalls' = Append(positionCalls,
                   [callbacks |-> callbacks, options |-> spreadOptions(options)])
    /\ UNCHANGED geolocation

\* geoService.requestLocation(options, callbacks)
RequestLocation(options, callbacks) ==
    /\ requestLocation(options, callbacks)
    /\ UNCHANGED <<favoritesVars, apiVars, themeVars, tabVars, notificationVars, appVars>>

Without(seq, i) == SubSeq(seq, 1, i - 1) \o SubSeq(seq, i + 1, Len(seq))

\* The platform answers call i with a position: the success callback.
PositionFound(i, position) ==
    /\ i \in DOMAIN positionCalls
    /\ geoLast' =
           IF positionCalls[i].callbacks = "none" THEN GeoCall("success", "none")
           ELSE [GeoCall("success", positionCalls[i].callbacks) EXCEPT
                    !.callback = "onSuccess",
                    !.coords = [latitude |-> position.latitude,
                                longitude |-> position.longitude]]
    /\ positionCalls' = Without(positionCalls, i)
    /\ UNCHANGED <<geolocation, favoritesVars, apiVars, themeVars, tabVars, notificationVars, appVars>>

\* The platform answers call i with an error: the error callback.
PositionFails(i, code) ==
    /\ i \in DOMAIN positionCalls
    /\ geoLast' =
           IF positionCalls[i].callbacks = "none"
               THEN [GeoCall("error", "none") EXCEPT !.code = code]
           ELSE [GeoCall("error", positionCalls[i].callbacks) EXCEPT
                    !.code = code, !.callback = "onError",
                    !.message = errorMessage(code)]
    /\ positionCalls' = Without(positionCalls, i)
    /\ UNCHANGED <<geolocation, favoritesVars, apiVars, themeVars, tabVars, notificationVars, appVars>>

\* ------------------------------------------------------------ createApp
\* The ids createApp looks up, in the order of its declarations.
RequiredElements ==
    <<"post-title", "post-id", "fetch-post-btn", "save-favorite-btn",
      "favorites-list", "clear-favorites-btn", "location-info",
      "get-location-btn", "theme-toggle">>

Required == Members(RequiredElements)

\* The documents: markup with every required element, or lacking one.
Markups == {Required} \cup {Required \ {name} : name \in Required}

\* The message of must's Error, without its diacritic.
NotFound(name) == "Elemento nao encontrado: " \o name

\* A must that hands back whatever it is given.
mustLenient(present, name) == [ok |-> TRUE, error |-> ""]

\* must(document.getElementById(name), name): getElementById gives null for
\* an element that is not in the document yet, and must throws on null.
must(present, name) ==
    IF name \in present THEN [ok |-> TRUE, error |-> ""]
    ELSE [ok |-> FALSE, error |-> NotFound(name)]

\* The nine const declarations of createApp: the first throw ends them.
RECURSIVE lookups(_, _)
lookups(names, present) ==
    IF names = <<>> THEN [ok |-> TRUE, error |-> ""]
    ELSE LET found == must(present, Head(names)) IN
        IF found.ok THEN lookups(Tail(names), present) ELSE found

\* The click listeners createApp adds to the five buttons.
ClickHandlers ==
    {"onFetchPost", "onSaveFavorite", "onClearFavorites", "onGetLocation", "onToggleTheme"}

\* The script has not run.
NoApp ==
    [script |-> "not run", error |-> "", missing |-> {}, lookedUpAt |-> "",
     handlers |-> {}, waiting |-> FALSE, inits |-> 0]

NoPost == [id |-> 0, title |-> ""]

\* The posts the API answers with.
AppPosts == {save.post : save \in Saves}

MsPerMinute == 60000

\* formatDate(timestamp): day, month, year, hour and minute; the seconds and
\* milliseconds are dropped.
formatDate(timestamp) == "minute " \o ToString(timestamp \div MsPerMinute)

\* A displayFavorites that lists the entries last to first.
displayFavoritesReversed(favorites) ==
    IF Len(favorites) = 0 THEN [rendered |-> <<>>, clearDisplay |-> "none"]
    ELSE [rendered |->
              [i \in 1..Len(favorites) |->
                  LET fav == favorites[Len(favorites) + 1 - i] IN
                  [id |-> "#" \o ToString(fav.id), title |-> fav.title,
                   date |-> formatDate(fav.timestamp), removes |-> fav.id]],
          clearDisplay |-> "block"]

\* displayFavorites(favorites): the list is emptied; with no favorites the
\* clear-all button is hidden, otherwise it is shown and one item per entry is
\* appended, with a remove button that holds the entry's id.
displayFavorites(favorites) ==
    IF Len(favorites) = 0 THEN [rendered |-> <<>>, clearDisplay |-> "none"]
    ELSE [rendered |->
              [i \in 1..Len(favorites) |->
                  LET fav == favorites[i] IN
                  [id |-> "#" \o ToString(fav.id), title |-> fav.title,
                   date |-> formatDate(fav.timestamp), removes |-> fav.id]],
          clearDisplay |-> "block"]

\* The listener displayFavorites, if the last call of the registry called it.
Redisplayed ==
    IF "displayFavorites" \in Members(last'.called)
        THEN LET shown == displayFavorites(last'.payload) IN
            /\ rendered' = shown.rendered
            /\ clearDisplay' = shown.clearDisplay
    ELSE UNCHANGED <<rendered, clearDisplay>>

\* The title, the id and the two buttons as the markup has them.
MarkupUi == [title |-> "markup", id |-> "markup", fetchBtn |-> "markup", saveBtn |-> "markup"]

LoadingTitle == "Buscando novo destino..."
ErrorTitle == "Erro ao carregar destino. Tente novamente."

\* displayPost(post)
displayPost(u, post) == [u EXCEPT !.title = post.title, !.id = "#" \o ToString(post.id)]

\* setLoadingState(isLoading)
setLoadingState(u, isLoading) ==
    IF isLoading
        THEN [u EXCEPT !.title = LoadingTitle, !.id = "",
                       !.fetchBtn = "disabled", !.saveBtn = "disabled"]
    ELSE [u EXCEPT !.fetchBtn = "enabled", !.saveBtn = "enabled"]

\* An onPostFetched that leaves the buttons as they are.
onPostFetchedStuck(u, post) == displayPost(u, post)

\* What onPostFetched(post) does to the page; currentPost becomes post.
onPostFetched(u, post) == setLoadingState(displayPost(u, post), FALSE)

\* An onPostFetchError that ends with setLoadingState(false).
onPostFetchErrorSavable(u) == setLoadingState([u EXCEPT !.title = ErrorTitle], FALSE)

\* onPostFetchError(message, error)
onPostFetchError(u) ==
    [setLoadingState([u EXCEPT !.title = ErrorTitle], FALSE) EXCEPT !.saveBtn = "disabled"]

\* What init touches.
initVars == <<requests, controller, last, rendered, clearDisplay, positionCalls, geoLast>>

\* init(), with the change listeners subscribed: the first fetch, the first
\* render of the stored favorites, and onGetLocation.
init(subscribed) ==
    LET got == getFavorites(storage)
        shown == displayFavorites(got.value.items)
    IN
    /\ fetchRandomPost
    /\ last' = [Call("getFavorites") EXCEPT
                   !.subscribed = subscribed, !.value = got.value,
                   !.getItems = 1, !.errors = ReadError(got)]
    /\ rendered' = shown.rendered
    /\ clearDisplay' = shown.clearDisplay
    /\ requestLocation([has |-> FALSE, timeout |-> 0], "required")

\* The script is evaluated: createApp() makes its lookups, subscribes its
\* listeners and adds its click listeners, and the bootstrap runs init or
\* leaves it to DOMContentLoaded. A throw of must ends the script. The
\* services createApp makes first are in their state after construction.
ScriptRuns ==
    LET looked == lookups(RequiredElements, inDocument)
        created == [app EXCEPT !.missing = Required \ inDocument,
                               !.lookedUpAt = readyState]
        subscribed == Append(listeners, "displayFavorites")
    IN
    /\ app.script = "not run"
    /\ IF ~looked.ok THEN
            /\ app' = [created EXCEPT !.script = "threw", !.error = looked.error]
            /\ UNCHANGED <<listeners, postFetchedListeners, errorListeners, initVars>>
       ELSE
            /\ listeners' = subscribed
            /\ postFetchedListeners' = Append(postFetchedListeners, "onPostFetched")
            /\ errorListeners' = Append(errorListeners, "onPostFetchError")
            /\ IF readyState = "loading" THEN
                    /\ app' = [created EXCEPT !.script = "created",
                                              !.handlers = ClickHandlers,
                                              !.waiting = TRUE]
                    /\ UNCHANGED initVars
               ELSE
                    /\ app' = [created EXCEPT !.script = "created",
                                              !.handlers = ClickHandlers,
                                              !.inits = 1]
                    /\ init(subscribed)
    /\ UNCHANGED <<storage, handles, startedClean, themeVars, tabVars, notificationVars,
                   geolocation, readyState, markup, inDocument, currentPost, ui>>

\* The parser reaches the end of the document: every element of the markup is
\* there, readyState leaves "loading" and DOMContentLoaded is dispatched.
DomContentLoaded ==
    /\ readyState = "loading"
    /\ readyState' = "interactive"
    /\ inDocument' = markup
    /\ IF app.waiting THEN
            /\ app' = [app EXCEPT !.inits = @ + 1]
            /\ init(listeners)
       ELSE UNCHANGED <<app, initVars>>
    /\ UNCHANGED <<storage, listeners, handles, startedClean, postFetchedListeners,
                   errorListeners, themeVars, tabVars, notificationVars, geolocation,
                   markup, currentPost, ui>>

\* The window's load event.
Load ==
    /\ readyState = "interactive"
    /\ readyState' = "complete"
    /\ UNCHANGED <<favoritesVars, apiVars, themeVars, tabVars, notificationVars, geoVars,
                   markup, inDocument, app, currentPost, rendered, clearDisplay, ui>>

\* The listener onPostFetched is called with a post.
PostFetched(post) ==
    /\ "onPostFetched" \in Members(postFetchedListeners)
    /\ requests # <<>>
    /\ currentPost' = post
    /\ ui' = onPostFetched(ui, post)
    /\ UNCHANGED <<favoritesVars, apiVars, themeVars, tabVars, notificationVars, geoVars,
                   readyState, markup, inDocument, app, rendered, clearDisplay>>

\* A click on the fetch button, which dispatches no click while it is
\* disabled: onFetchPost.
OnFetchPost ==
    /\ "onFetchPost" \in app.handlers
    /\ ui.fetchBtn # "disabled"
    /\ ui' = setLoadingState(ui, TRUE)
    /\ fetchRandomPost
    /\ UNCHANGED <<postFetchedListeners, errorListeners, favoritesVars, themeVars, tabVars,
                   notificationVars, geoVars, readyState, markup, inDocument, app,
                   currentPost, rendered, clearDisplay>>

\* The error listeners the call of request r has called, onPostFetchError
\* among them or not.
ErrorShown(r) ==
    IF "onPostFetchError" \in Members(requests'[r].failed)
        THEN ui' = onPostFetchError(ui)
    ELSE UNCHANGED ui

\* fetch() of request r settles, in the page: a response that is not ok and
\* a rejection reach onPostFetchError.
FetchAnswered(r, response) ==
    /\ fetchSettles(r, response, FALSE)
    /\ ErrorShown(r)
    /\ UNCHANGED <<controller, postFetchedListeners, errorListeners, favoritesVars, themeVars,
                   tabVars, notificationVars, geoVars, readyState, markup, inDocument, app,
                   currentPost, rendered, clearDisplay>>

\* response.json() of request r gives a post, which reaches onPostFetched.
PostArrives(r, post) ==
    /\ jsonSettles(r, "post", FALSE)
    /\ IF "onPostFetched" \in Members(requests'[r].posted)
            THEN /\ currentPost' = post
                 /\ ui' = onPostFetched(ui, post)
       ELSE UNCHANGED <<currentPost, ui>>
    /\ UNCHANGED <<controller, postFetchedListeners, errorListeners, favoritesVars, themeVars,
                   tabVars, notificationVars, geoVars, readyState, markup, inDocument, app,
                   rendered, clearDisplay>>

\* response.json() of request r rejects, which reaches onPostFetchError.
BodyFails(r) ==
    /\ jsonSettles(r, "garbage", FALSE)
    /\ ErrorShown(r)
    /\ UNCHANGED <<controller, postFetchedListeners, errorListeners, favoritesVars, themeVars,
                   tabVars, notificationVars, geoVars, readyState, markup, inDocument, app,
                   currentPost, rendered, clearDisplay>>

\* A click on the save button, which dispatches no click while it is
\* disabled: onSaveFavorite.
OnSaveFavorite(now) ==
    /\ "onSaveFavorite" \in app.handlers
    /\ ui.saveBtn # "disabled"
    /\ IF currentPost = NoPost
            THEN UNCHANGED <<storage, last, rendered, clearDisplay, notificationVars>>
       ELSE /\ addFavorite(currentPost, now, FALSE)
            /\ Redisplayed
            /\ show(DefaultTimeout)
    /\ UNCHANGED <<listeners, handles, startedClean, apiVars, themeVars, tabVars, geoVars,
                   readyState, markup, inDocument, app, currentPost, ui>>

\* A click on the remove button of a rendered item.
RemoveClicked(i) ==
    /\ i \in DOMAIN rendered
    /\ removeFavorite(rendered[i].removes, FALSE)
    /\ Redisplayed
    /\ show(DefaultTimeout)
    /\ UNCHANGED <<listeners, handles, startedClean, apiVars, themeVars, tabVars, geoVars,
                   readyState, markup, inDocument, app, currentPost, ui>>

\* A click on the clear-all button: onClearFavorites, the user answering the
\* confirm dialog.
OnClearFavorites(confirmed) ==
    /\ "onClearFavorites" \in app.handlers
    /\ IF confirmed
            THEN /\ clearAllFavorites(FALSE)
                 /\ Redisplayed
                 /\ show(DefaultTimeout)
       ELSE UNCHANGED <<storage, last, rendered, clearDisplay, notificationVars>>
    /\ UNCHANGED <<listeners, handles, startedClean, apiVars, themeVars, tabVars, geoVars,
                   readyState, markup, inDocument, app, currentPost, ui>>

\* ------------------------------------------------------------ initial states
Tokyo == [id |-> 1, title |-> "Tokyo", timestamp |-> 1]
Other == [id |-> MaxId, title |-> "Tokyo", timestamp |-> 1]
TokyoAgain == [id |-> 1, title |-> "Paris", timestamp |-> 2]

\* Collections an earlier page session may have saved.
SavedCollections == {<<>>, <<Tokyo>>, <<Other, Tokyo>>}

\* A collection no sequence of calls writes: two entries with one id.
DuplicateCollections == {<<Tokyo, TokyoAgain>>}

\* Values under the key that are no serialized sequence of Favorite: the empty
\* string, a text that is not JSON, a truncated array, and JSON of another
\* shape: an object, a number, null, an array holding null.
MalformedTexts ==
    { <<>>,
      <<"oops">>,
      <<"[">> \o stringifyFavorite(Tokyo),
      <<"{", "}">>,
      <<ToString(1)>>,
      <<"null">>,
      <<"[", "null", "]">> }

InitialStores ==
    {NoItem}
    \cup {Item(JSONstringify(c)) : c \in SavedCollections \cup DuplicateCollections}
    \cup {Item(t) : t \in MalformedTexts}

CleanStores == {NoItem} \cup {Item(JSONstringify(c)) : c \in SavedCollections}

\* createFavoritesService(STORAGE_KEY) on one of these stores.
InitFavorites(stores) ==
    /\ storage \in stores
    /\ listeners = <<>>
    /\ handles = {}
    /\ startedClean = (storage \in CleanStores)
    /\ last = [Call("none") EXCEPT !.pre = storage, !.subscribed = <<>>]

\* createApiService(API_URL)
InitApi ==
    /\ requests = <<>>
    /\ controller = 0
    /\ postFetchedListeners = <<>>
    /\ errorListeners = <<>>

\* createThemeService(THEME_KEY) on one of these stored strings and system
\* preferences: currentTheme is resolved and applied to the document.
InitTheme(stores, systems) ==
    /\ themeStorage \in stores
    /\ system \in systems
    /\ currentTheme = initialTheme(themeStorage, system)
    /\ dataTheme = currentTheme
    /\ themeListeners = <<>>
    /\ themeLast = [op |-> "createThemeService", before |-> "", stored |-> themeStorage,
                    subscribed |-> <<>>, called |-> <<>>, payload |-> "",
                    listener |-> "", explicit |-> themeStorage \in {Value(t) : t \in Themes},
                    threw |-> FALSE,
                    earlier |-> [op |-> "", before |-> ""]]

\* No context is in the middle of a call.
InitTabs ==
    /\ tabs = [t \in Tabs |-> IdleTab]

\* createNotificationService(): nothing shown, no timer.
InitNotifications ==
    /\ currentNotification = 0
    /\ attached = {}
    /\ timers = {}
    /\ clock = 0
    /\ notes = <<>>

\* createGeoService() on a platform with or without navigator.geolocation.
InitGeo(platforms) ==
    /\ geolocation \in platforms
    /\ positionCalls = <<>>
    /\ geoLast = GeoCall("none", "none")

\* The document before the script runs: still loading, with none of the
\* markup parsed (a script in the head) or all of it (a script at the end of
\* the body).
InitApp(markups) ==
    /\ readyState = "loading"
    /\ markup \in markups
    /\ inDocument \in {{}, markup}
    /\ app = NoApp
    /\ currentPost = NoPost
    /\ rendered = <<>>
    /\ clearDisplay = ""
    /\ ui = MarkupUi

\* The rest of the page, left alone.
InitPage ==
    /\ InitTabs
    /\ InitNotifications
    /\ InitGeo({TRUE})
    /\ InitApp({Required})
    /\ inDocument = markup

\* The favorites registry on any store; no request is made and the theme is
\* left alone.
Init ==
    /\ InitFavorites(InitialStores)
    /\ InitApi
    /\ InitTheme({NoValue}, {"light"})
    /\ InitPage

\* The store accepts every write and every listener returns.
Next ==
    \/ GetFavorites
    \/ \E save \in Saves : AddFavorite(save.post, save.now, FALSE)
    \/ \E id \in Ids : RemoveFavorite(id, FALSE)
    \/ ClearAllFavorites(FALSE)
    \/ \E listener \in Callbacks : OnChange(listener)
    \/ \E listener \in Callbacks : Unsubscribe(listener)

Spec == Init /\ [][Next]_vars

\* setItem may throw and a listener may throw.
NextFaults ==
    \/ GetFavorites
    \/ \E save \in Saves : AddFavorite(save.post, save.now, TRUE)
    \/ \E id \in Ids : RemoveFavorite(id, TRUE)
    \/ ClearAllFavorites(TRUE)
    \/ \E listener \in Callbacks : OnChange(listener)
    \/ \E listener \in Callbacks : Unsubscribe(listener)

SpecFaults == Init /\ [][NextFaults]_vars

\* The fetcher on its own: the registry on an empty store is left alone.
ApiInit ==
    /\ InitFavorites({NoItem})
    /\ InitApi
    /\ InitTheme({NoValue}, {"light"})
    /\ InitPage

Requests == 1..MaxRequests

\* Every listener returns.
NextApi ==
    \/ FetchRandomPost
    \/ Cancel
    \/ \E listener \in PostCallbacks : OnPostFetched(listener)
    \/ \E listener \in ErrorCallbacks : OnError(listener)
    \/ \E r \in Requests : AbortError(r)
    \/ \E r \in Requests, response \in Responses : FetchSettles(r, response, FALSE)
    \/ \E r \in Requests, body \in Bodies : JsonSettles(r, body, FALSE)

SpecApi == ApiInit /\ [][NextApi]_vars

\* The platform settles every pending fetch() and response.json(), and runs
\* the continuation of every settled await.
Settles(r) ==
    \/ AbortError(r)
    \/ \E response \in Responses : FetchSettles(r, response, FALSE)
    \/ \E body \in Bodies : JsonSettles(r, body, FALSE)

SpecApiFair == ApiInit /\ [][NextApi]_vars /\ \A r \in Requests : WF_vars(Settles(r))

\* A post listener or an error listener may throw.
NextApiFaults ==
    \/ FetchRandomPost
    \/ Cancel
    \/ \E listener \in PostCallbacks : OnPostFetched(listener)
    \/ \E listener \in ErrorCallbacks : OnError(listener)
    \/ \E r \in Requests : AbortError(r)
    \/ \E r \in Requests, response \in Responses : FetchSettles(r, response, TRUE)
    \/ \E r \in Requests, body \in Bodies : JsonSettles(r, body, TRUE)

SpecApiFaults == ApiInit /\ [][NextApiFaults]_vars

\* The theme service on its own.
ThemeInit ==
    /\ InitFavorites({NoItem})
    /\ InitApi
    /\ InitTheme(InitialThemes, Systems)
    /\ InitPage

NextTheme ==
    \/ Toggle
    \/ \E sys \in Themes : SystemChange(sys)
    \/ \E listener \in ThemeCallbacks : ThemeOnChange(listener)
    \/ \E listener \in ThemeCallbacks : ThemeUnsubscribe(listener)

SpecTheme == ThemeInit /\ [][NextTheme]_vars

\* The store may refuse a write of the theme.
NextThemeFaults ==
    \/ NextTheme
    \/ ToggleThrows
    \/ \E sys \in Themes : SystemChangeThrows(sys)

SpecThemeFaults == ThemeInit /\ [][NextThemeFaults]_vars

\* Two contexts on a store that an earlier session left, each running adds,
\* removes and clears whose reads and writes interleave.
TabsInit ==
    /\ InitFavorites(CleanStores)
    /\ InitApi
    /\ InitTheme({NoValue}, {"light"})
    /\ InitPage

NextTabs ==
    \/ \E t \in Tabs, save \in TabSaves : TabAddReads(t, save.post, save.now)
    \/ \E t \in Tabs, id \in TabIds : TabRemoveReads(t, id)
    \/ \E t \in Tabs : TabWrites(t)
    \/ \E t \in Tabs : TabClears(t)

SpecTabs == TabsInit /\ [][NextTabs]_vars

\* The geolocation service on its own.
GeoInit ==
    /\ InitFavorites({NoItem})
    /\ InitApi
    /\ InitTheme({NoValue}, {"light"})
    /\ InitTabs
    /\ InitNotifications
    /\ InitGeo(BOOLEAN)
    /\ InitApp({Required})
    /\ inDocument = markup

NextGeo ==
    \/ \E options \in OptionSets, callbacks \in CallbackSets :
           RequestLocation(options, callbacks)
    \/ \E i \in 1..MaxPositionCalls, position \in Positions : PositionFound(i, position)
    \/ \E i \in 1..MaxPositionCalls, code \in ErrorCodes : PositionFails(i, code)

SpecGeo == GeoInit /\ [][NextGeo]_vars

\* The page: a document being parsed, the script, DOMContentLoaded, posts
\* arriving and clicks on the save, remove and clear-all buttons. The store
\* is one an earlier session left; it accepts every write.
AppInit ==
    /\ InitFavorites(CleanStores)
    /\ InitApi
    /\ InitTheme({NoValue}, {"light"})
    /\ InitTabs
    /\ InitNotifications
    /\ InitGeo({TRUE})
    /\ InitApp(Markups)

NextApp ==
    \/ ScriptRuns
    \/ DomContentLoaded
    \/ Load
    \/ \E post \in AppPosts : PostFetched(post)
    \/ \E now \in Times : OnSaveFavorite(now)
    \/ \E i \in 1..MaxId : RemoveClicked(i)
    \/ \E confirmed \in BOOLEAN : OnClearFavorites(confirmed)

SpecApp == AppInit /\ [][NextApp]_vars

\* The page and the network: the script, DOMContentLoaded, clicks on the
\* fetch and save buttons, and the answers to the requests. The store starts
\* empty and the markup is complete.
PageInit ==
    /\ InitFavorites({NoItem})
    /\ InitApi
    /\ InitTheme({NoValue}, {"light"})
    /\ InitTabs
    /\ InitNotifications
    /\ InitGeo({TRUE})
    /\ InitApp({Required})

\* The posts the API answers with here: the first and the last, and the
\* first under another title.
PagePosts == {save.post : save \in TabSaves}

\* The platform settles the await request r stands at.
Answered(r) ==
    \/ AbortError(r)
    \/ \E response \in Responses : FetchAnswered(r, response)
    \/ \E post \in PagePosts : PostArrives(r, post)
    \/ BodyFails(r)

NextPage ==
    \/ ScriptRuns
    \/ DomContentLoaded
    \/ OnFetchPost
    \/ \E r \in Requests : Answered(r)
    \/ OnSaveFavorite(Min(Times))

SpecPage == PageInit /\ [][NextPage]_vars

\* Every pending await is settled.
SpecPageFair == PageInit /\ [][NextPage]_vars /\ \A r \in Requests : WF_vars(Answered(r))

\* The notification service on its own.
NotificationsInit ==
    /\ InitFavorites({NoItem})
    /\ InitApi
    /\ InitTheme({NoValue}, {"light"})
    /\ InitPage

\* The instants at which something can happen next: the next timer, or the
\* end of a caller's pause.
Instants == {timer.due : timer \in timers} \cup {clock + Pause}

NextNotifications ==
    \/ \E timeout \in Timeouts : Show(timeout)
    \/ \E timer \in timers : Fires(timer)
    \/ \E to \in Instants : Elapses(to)

SpecNotifications == NotificationsInit /\ [][NextNotifications]_vars

\* The clock runs and every timer that is due runs.
SpecNotificationsFair ==
    /\ NotificationsInit
    /\ [][NextNotifications]_vars
    /\ WF_vars(\E timer \in timers : Fires(timer))
    /\ WF_vars(\E to \in {timer.due : timer \in timers} : Elapses(to))

\* ------------------------------------------------------------ properties
Mutations == {"addFavorite", "removeFavorite", "clearAllFavorites"}

\* list() now, and list() as the last call found it.
Listed == getFavorites(storage).value
ListedBefore == getFavorites(last.pre).value

\* The place of the entry with this id in a collection of distinct ids.
PlaceOf(items, id) == CHOOSE i \in 1..Len(items) : items[i].id = id

\* C1: on a store that starts absent or duplicate-free, after any sequence of
\* add, remove and clear calls (failing writes and throwing listeners
\* included) list() is a sequence of Favorite in which no two entries share
\* an id.
C1_NoDuplicateIds ==
    startedClean => IsFavorites(Listed) /\ DistinctIds(Listed.items)

\* C1 witness: a second add of a saved id has been tried on a collection of
\* several entries.
C1_Witness ==
    /\ startedClean
    /\ last.op = "addFavorite"
    /\ Len(Listed.items) >= 2
    /\ last.id \in IdsOf(ListedBefore.items)

\* C2: list() is ordered newest insertion first. An add leaves the collection
\* as it was or puts the new entry in front of all the older ones, which keep
\* their order; a remove or clear leaves only entries that were there, in
\* the order they had.
C2_NewestFirst ==
    (startedClean /\ last.op \in Mutations) =>
        LET before == ListedBefore.items
            after == Listed.items
        IN
        \/ after = before
        \/ /\ last.op = "addFavorite"
           /\ after # <<>>
           /\ Head(after).id = last.id
           /\ last.id \notin IdsOf(before)
           /\ Tail(after) = before
        \/ /\ last.op # "addFavorite"
           /\ IdsOf(after) \subseteq IdsOf(before)
           /\ \A i, j \in 1..Len(after) :
                  i < j => PlaceOf(before, after[i].id) < PlaceOf(before, after[j].id)
           /\ \A i \in 1..Len(after) : after[i] = before[PlaceOf(before, after[i].id)]

\* C2 witness: three adds with distinct ids are listed in reverse call order
\* and a remove has then left two of them, in that order.
C2_Witness ==
    /\ startedClean
    /\ last.op = "removeFavorite"
    /\ Len(ListedBefore.items) = 3
    /\ Len(Listed.items) = 2
    /\ ListedBefore.items[1].id = 3
    /\ ListedBefore.items[2].id = 2
    /\ ListedBefore.items[3].id = 1
    /\ last.id = 2

\* C3: add with a post whose id is already in the collection returns false
\* and does nothing else: no setItem, no listener called, nothing logged, the
\* stored value (so the entry's title and timestamp) as it was.
C3_DuplicateAddIsNoOp ==
    (/\ last.op = "addFavorite"
     /\ IsFavorites(ListedBefore)
     /\ last.id \in IdsOf(ListedBefore.items)) =>
        /\ ~last.threw
        /\ last.ret = FALSE
        /\ last.setItems = 0
        /\ last.called = <<>>
        /\ last.errors = <<>>
        /\ storage = last.pre

\* C3 witness: post 1, saved as "Tokyo", is added again retitled "Paris" while
\* listeners are subscribed.
C3_Witness ==
    /\ last.op = "addFavorite"
    /\ IsFavorites(ListedBefore)
    /\ last.id = 1
    /\ last.title = "Paris"
    /\ \E i \in 1..Len(ListedBefore.items) :
           ListedBefore.items[i].id = 1 /\ ListedBefore.items[i].title = "Tokyo"
    /\ last.subscribed # <<>>

C7_ListFailsOpen ==
    (/\ last.op = "getFavorites"
     /\ (last.pre = NoItem \/ last.pre \in {Item(t) : t \in MalformedTexts})) =>
        /\ ~last.threw
        /\ last.value = JsArray(<<>>)

\* C8: list, add, remove and clear never raise to their caller, whatever the
\* stored value and whether or not the store write fails.
C8_NeverRaises ==
    last.op \in Mutations \cup {"getFavorites"} => ~last.threw

\* C9 as stated: when the store write fails during add, remove or clear, the
\* subscribers are still called with the collection the operation computed.
C9_NotifiedAfterFailedWrite ==
    (last.op \in Mutations /\ last.setItems = 1 /\ ~last.stored) =>
        last.called = last.subscribed

\* C9 amended: when the store write fails during add, remove or clear, the
\* failure is caught and logged, the stored value stays as it was and no
\* listener is called.
C9_FailedWriteIsSilent ==
    (last.op \in Mutations /\ last.setItems = 1 /\ ~last.stored) =>
        /\ ~last.threw
        /\ last.called = <<>>
        /\ storage = last.pre
        /\ last.errors # <<>>
        /\ last.errors[Len(last.errors)] = "Erro ao salvar favoritos:"

\* C9 witness: a write fails while both callbacks are subscribed.
C9_Witness ==
    /\ last.op \in Mutations
    /\ last.setItems = 1
    /\ ~last.stored
    /\ Len(last.subscribed) = 2
    /\ IsFavorites(ListedBefore)
    /\ Len(ListedBefore.items) >= 1

C11_Unsubscribed ==
    /\ last.op = "unsubscribe" =>
           /\ ~last.threw
           /\ last.listener \notin Members(listeners)
           /\ \A l \in Members(last.subscribed) \ {last.listener} : l \in Members(listeners)
           /\ Members(listeners) \subseteq Members(last.subscribed)
           /\ Len(listeners) = Cardinality(Members(listeners))
           /\ storage = last.pre
           /\ (last.listener \notin Members(last.subscribed) => listeners = last.subscribed)
    /\ last.op \in Mutations =>
           \A l \in handles \ Members(last.subscribed) : l \notin Members(last.called)

\* C11 witness: "badge" was subscribed first and then unsubscribed, and a
\* later mutation called "displayFavorites" alone.
C11_Witness ==
    /\ last.op \in Mutations
    /\ handles = {"badge", "displayFavorites"}
    /\ last.subscribed = <<"displayFavorites">>
    /\ last.called = <<"displayFavorites">>

\* C12: a call of fetchRandomPost overtaken by a later call while in flight
\* has its signal aborted and delivers nothing: no post listener and no error
\* listener is ever called for it, whenever the network answers. At most one
\* call, the newest, can still deliver.
C12_SupersededIsSilent ==
    /\ \A r \in DOMAIN requests :
           requests[r].superseded =>
               /\ r < Len(requests)
               /\ requests[r].aborted
               /\ requests[r].emitted = <<>>
               /\ requests[r].posted = <<>>
               /\ requests[r].failed = <<>>
    /\ \A r \in DOMAIN requests :
           (InFlight(requests[r]) /\ ~requests[r].aborted) => r = Len(requests)

\* C12 witness: the first call had its response and was awaiting the body when
\* the second call overtook it; the first ended silently and the second
\* delivered its post to the subscribed listener.
C12_Witness ==
    /\ Len(requests) >= 2
    /\ requests[1].superseded
    /\ requests[1].response = "ok"
    /\ requests[1].phase = "settled"
    /\ requests[2].posted = <<"onPostFetched">>
    /\ errorListeners # <<>>

\* C13: a call that was in flight when cancel() was called delivers nothing:
\* no post listener and no error listener is called for it, no message is
\* made, and its promise resolves.
C13_CancelledIsSilent ==
    \A r \in DOMAIN requests :
        requests[r].cancelled =>
            /\ requests[r].aborted
            /\ requests[r].emitted = <<>>
            /\ requests[r].posted = <<>>
            /\ requests[r].failed = <<>>
            /\ requests[r].message = ""
            /\ requests[r].promise # "rejected"
            /\ ~InFlight(requests[r]) =>
                   requests[r].cause = "AbortError" /\ requests[r].promise = "resolved"

\* C13 witness: a call was cancelled, not overtaken, while both listeners were
\* subscribed, and has ended.
C13_Witness ==
    \E r \in DOMAIN requests :
        /\ requests[r].cancelled
        /\ ~requests[r].superseded
        /\ ~InFlight(requests[r])
        /\ postFetchedListeners # <<>>
        /\ errorListeners # <<>>

\* The step in which a call that was neither cancelled nor overtaken ends
\* makes exactly one emit call: the post to every post listener when the
\* response was ok and its body decoded, else the message and the cause to
\* every error listener. A call that has ended emits nothing more.
DeliversOnce ==
    \A r \in DOMAIN requests :
        LET before == requests[r]
            after == requests'[r]
        IN
        /\ (InFlight(before) /\ ~InFlight(after)
                /\ ~before.cancelled /\ ~before.superseded) =>
               \/ /\ after.response = "ok"
                  /\ after.body = "post"
                  /\ after.emitted = <<"post">>
                  /\ after.posted = postFetchedListeners
                  /\ after.failed = <<>>
               \/ /\ \/ after.response \in {"not ok", "failed"}
                     \/ after.response = "ok" /\ after.body = "garbage"
                  /\ after.emitted = <<"error">>
                  /\ after.failed = errorListeners
                  /\ after.posted = <<>>
                  /\ after.message = "Erro ao buscar postagem"
                  /\ after.cause \in {"HTTP error! status", "TypeError", "SyntaxError"}
        /\ ~InFlight(before) =>
               /\ after.emitted = before.emitted
               /\ after.posted = before.posted
               /\ after.failed = before.failed

C15_NeverRejects ==
    \A r \in DOMAIN requests : requests[r].promise # "rejected"

\* C16: at construction the theme is the stored string if that is 'light' or
\* 'dark'; otherwise what the system reports; otherwise, with no matchMedia,
\* 'light'. It is applied to the document.
C16_InitialTheme ==
    themeLast.op = "createThemeService" =>
        /\ currentTheme =
               IF themeStorage \in {Value("light"), Value("dark")} THEN themeStorage.text
               ELSE IF system \in Themes THEN system
               ELSE "light"
        /\ dataTheme = currentTheme

\* C16 witness: a stored string that is no theme, on a window without
\* matchMedia.
C16_Witness ==
    /\ themeLast.op = "createThemeService"
    /\ themeStorage = Value("blue")
    /\ system = "none"
    /\ currentTheme = "light"

\* C17: after every change of the system preference, the theme is the
\* system's when the user has made no explicit choice (no theme stored at
\* startup, no toggle since), and is what it was when they have.
C17_SystemChangeFollowed ==
    themeLast.op = "change" =>
        IF themeLast.explicit
            THEN currentTheme = themeLast.before /\ themeStorage = themeLast.stored
        ELSE currentTheme = system /\ dataTheme = system

C19_RoundTrip ==
    (last.op \in Mutations /\ last.stored) =>
        /\ storage = Item(JSONstringify(last.payload))
        /\ getFavorites(storage) = [value |-> JsArray(last.payload), error |-> FALSE]
        /\ Listed.items = last.payload

\* C19 witness: a collection of three, one of them titled "Paris" at the
\* second clock reading, was written and is read back.
C19_Witness ==
    /\ last.op = "addFavorite"
    /\ last.stored
    /\ Len(last.payload) = 3
    /\ last.payload[1] = TokyoAgain
    /\ last.payload[2].id # last.payload[3].id

\* C20 as stated: every add, remove and clear makes exactly one getItem and
\* exactly one setItem.
C20_OneReadOneWrite ==
    last.op \in Mutations => last.getItems = 1 /\ last.setItems = 1

\* C20 amended: add and remove read the store exactly once and clear does not
\* read it; clear, remove and an add of a new id call setItem exactly once,
\* with the whole serialized collection; an add of an id already there, and an
\* add or remove that raises on a stored value that is no array of favorites,
\* do not call setItem.
C20_StoreAccesses ==
    last.op \in Mutations =>
        /\ last.getItems = IF last.op = "clearAllFavorites" THEN 0 ELSE 1
        /\ last.setItems =
               IF last.threw \/ (last.op = "addFavorite" /\ ~last.ret) THEN 0 ELSE 1
        /\ (last.op = "addFavorite" /\ ~last.threw /\ ~last.ret) =>
               last.id \in IdsOf(ListedBefore.items)
        /\ last.stored => storage = Item(JSONstringify(last.payload))
        /\ last.setItems = 0 => storage = last.pre

\* C20 witness: a clear emptied a collection of two without reading it.
C20_Witness ==
    /\ last.op = "clearAllFavorites"
    /\ last.getItems = 0
    /\ last.setItems = 1
    /\ last.stored
    /\ IsFavorites(ListedBefore)
    /\ Len(ListedBefore.items) = 2

\* C28: for one call of fetchRandomPost the post listeners and the error
\* listeners are never both called, also when a post listener throws.
C28_NeverBothKinds ==
    \A r \in DOMAIN requests :
        ~(requests[r].posted # <<>> /\ requests[r].failed # <<>>)

\* C29: when a favorites listener throws during the fan-out of add, remove or
\* clear, the call does not raise, the collection it wrote stays stored, and
\* add has returned true.
C29_ThrowingListenerIsContained ==
    (/\ last.op \in Mutations
     /\ last.stored
     /\ last.errors # <<>>
     /\ last.errors[Len(last.errors)] = "Erro ao salvar favoritos:") =>
        /\ ~last.threw
        /\ storage = Item(JSONstringify(last.payload))
        /\ Listed = JsArray(last.payload)
        /\ (last.op = "addFavorite" => last.ret = TRUE)

\* C29 witness: an add wrote a collection of two and the first of two
\* subscribed listeners threw.
C29_Witness ==
    /\ last.op = "addFavorite"
    /\ last.stored
    /\ last.errors = <<"Erro ao salvar favoritos:">>
    /\ Len(last.subscribed) = 2
    /\ Len(last.called) = 1
    /\ Len(last.payload) = 2

\* C21: with two contexts interleaving, the write of an add or a remove
\* leaves as the stored collection exactly what the writing context computed
\* from its own read: what the other context stored after that read is not
\* merged in, so the later write wins whole.
C21_LastWriterWins ==
    [][\A t \in Tabs :
          (tabs[t].pc = "write" /\ tabs'[t].pc = "idle") =>
              /\ storage' = Item(JSONstringify(tabs[t].computed))
              /\ getFavorites(storage').value = JsArray(tabs[t].computed)]_vars

\* C21 witness: both contexts added, different ids, both adds returned true,
\* and the entry one of them wrote is not in the stored collection.
C21_Witness ==
    /\ \A t \in Tabs : tabs[t].pc = "idle" /\ tabs[t].op = "addFavorite" /\ tabs[t].ret
    /\ tabs["A"].id # tabs["B"].id
    /\ tabs["A"].id \notin IdsOf(Listed.items)
    /\ tabs["B"].id \in IdsOf(Listed.items)

\* C27: with two contexts interleaving add, remove and clear on a store that
\* started absent or duplicate-free, neither the stored collection nor any
\* collection a context is about to write holds two entries with one id.
C27_NoDuplicateIdsAcrossTabs ==
    startedClean =>
        /\ IsFavorites(Listed)
        /\ DistinctIds(Listed.items)
        /\ \A t \in Tabs : DistinctIds(tabs[t].computed)

\* C27 witness: both contexts read the same collection, both added the same
\* id and both adds returned true; the id is stored once.
C27_Witness ==
    /\ \A t \in Tabs : tabs[t].pc = "idle" /\ tabs[t].op = "addFavorite" /\ tabs[t].ret
    /\ tabs["A"].id = tabs["B"].id
    /\ tabs["A"].computed # tabs["B"].computed
    /\ Len(Listed.items) >= 2

\* C25: at most one notification element is attached to the document, and
\* currentNotification is that element, or null when none is attached.
C25_OneNotification ==
    /\ Cardinality(attached) <= 1
    /\ attached = IF currentNotification = 0 THEN {} ELSE {currentNotification}

\* C25 witness: the second notification is on display while timers of the
\* first, which it replaced, are still pending.
C25_Witness ==
    /\ currentNotification = 2
    /\ attached = {2}
    /\ \E timer \in timers : timer.notification = 1

\* A notification leaves the document, or stops being the tracked one, only
\* in a step that shows a newer one, or at the instant its own timeout plus
\* the fade-out delay has passed since it was shown.
OnlyOwnExpiry ==
    \A n \in DOMAIN notes :
        (\/ n \in attached /\ n \notin attached'
         \/ currentNotification = n /\ currentNotification' # n) =>
            \/ Len(notes') > Len(notes)
            \/ clock = notes[n].shownAt + notes[n].timeout + FadeOut

\* C30: every notification shown is eventually off the document, and until a
\* newer one replaces it or its own timeout plus 300 ms has passed it stays
\* attached and tracked, whatever timers of older notifications run.
C30_EveryNotificationExpires ==
    /\ [][OnlyOwnExpiry]_vars
    /\ \A n \in 1..MaxShows : (n \in attached) ~> (n \notin attached)

\* C30 witness: the removal timer of the first notification has run while the
\* second, which replaced it, stays on display and tracked.
C30_Witness ==
    /\ Len(notes) >= 2
    /\ notes[1].fadeOut
    /\ \A timer \in timers : timer.notification # 1
    /\ currentNotification = 2
    /\ attached = {2}
    /\ clock >= notes[1].shownAt + notes[1].timeout + FadeOut

C23_MissingElementAborts ==
    (app.script # "not run" /\ app.missing # {}) =>
        /\ app.script = "threw"
        /\ \E i \in DOMAIN RequiredElements :
            /\ RequiredElements[i] \in app.missing
            /\ \A j \in 1..(i - 1) : RequiredElements[j] \notin app.missing
            /\ app.error = NotFound(RequiredElements[i])
        /\ app.inits = 0
        /\ ~app.waiting
        /\ requests = <<>>
        /\ app.handlers = {}
        /\ listeners = <<>>
        /\ postFetchedListeners = <<>>
        /\ errorListeners = <<>>

\* The markup lacks an element, the script threw, and the document has since
\* finished loading.
C23_Witness ==
    /\ app.script = "threw"
    /\ markup # Required
    /\ app.missing = Required \ markup
    /\ readyState = "complete"

\* C24: the lookups of the required elements are made only when the document
\* is no longer loading, init runs at most once, and once a complete document
\* is ready and the script has run, init has run exactly once.
C24_RunsOnceDomIsReady ==
    /\ app.lookedUpAt # "loading"
    /\ app.inits <= 1
    /\ (app.script # "not run" /\ readyState # "loading" /\ markup = Required) =>
           app.inits = 1

\* C26: on a store that started as a collection of favorites, once init has
\* run the favorites list shows one item per entry of getFavorites(), in the
\* same order, with the entry's id and title and a remove button for that
\* id, and the clear-all button is displayed exactly when there are entries.
C26_RenderedMatchesList ==
    (startedClean /\ app.inits = 1) =>
        LET items == getFavorites(storage).value.items IN
        /\ Len(rendered) = Len(items)
        /\ \A i \in 1..Len(items) :
            /\ rendered[i].id = "#" \o ToString(items[i].id)
            /\ rendered[i].title = items[i].title
            /\ rendered[i].removes = items[i].id
        /\ clearDisplay \in {"none", "block"}
        /\ (clearDisplay = "block") <=> (items # <<>>)

\* A remove button was clicked after init and two entries are still listed.
C26_Witness ==
    /\ app.inits = 1
    /\ last.op = "removeFavorite"
    /\ last.called = <<"displayFavorites">>
    /\ Len(rendered) = 2
    /\ rendered[1].removes # rendered[2].removes

\* C35: a call of getFavorites leaves the stored value and the listeners as
\* they are, makes no setItem and calls no listener, whatever is stored; and
\* the stored value changes only in an add, remove or clear whose setItem was
\* accepted.
C35_ListNeverWrites ==
    [][/\ last'.op = "getFavorites" =>
            /\ storage' = storage
            /\ listeners' = listeners
            /\ last'.setItems = 0
            /\ last'.called = <<>>
            /\ ~last'.stored
       /\ storage' # storage => (last'.op \in Mutations /\ last'.stored)]_vars

\* A text that is not JSON is stored and getFavorites has just read it.
C35_Witness ==
    /\ last.op = "getFavorites"
    /\ last.errors # <<>>
    /\ last.value = JsArray(<<>>)
    /\ storage = Item(<<"oops">>)

\* C34: subscribing a listener that is already subscribed leaves the Set as
\* it is; no listener stands twice in the Set or is called twice by one
\* mutation; and an unsubscribe closure of a listener leaves it out of the
\* Set, however often it had been subscribed.
C34_SubscribedOnce ==
    [][/\ (last'.op = "onChange" /\ last'.listener \in Members(listeners)) =>
            listeners' = listeners
       /\ Len(listeners') = Cardinality(Members(listeners'))
       /\ last'.op \in Mutations =>
            /\ Len(last'.called) = Cardinality(Members(last'.called))
            /\ Members(last'.called) \subseteq Members(listeners)
       /\ last'.op = "unsubscribe" => last'.listener \notin Members(listeners')]_vars

\* onChange has just been called with a listener that was subscribed already.
C34_Witness ==
    /\ last.op = "onChange"
    /\ last.listener \in Members(last.subscribed)
    /\ listeners = last.subscribed
    /\ Len(listeners) = 2

\* C33: the data-theme attribute is the current theme, and a theme stored
\* under the key is the current theme.
C33_ThemeInSync ==
    /\ dataTheme = currentTheme
    /\ getSavedTheme(themeStorage).has => themeStorage.text = currentTheme

\* The post displayed is the current post.
CurrentIsDisplayed ==
    /\ ui.title = currentPost.title
    /\ ui.id = "#" \o ToString(currentPost.id)

\* The newest call of fetchRandomPost has ended in onPostFetchError.
FetchHasFailed ==
    /\ requests # <<>>
    /\ "onPostFetchError" \in Members(requests[Len(requests)].failed)

\* C31: while the fetch button is disabled, which only a click on it does,
\* the call of fetchRandomPost that holds the controller is in flight and not
\* aborted; the step in which a call delivers a post or an error leaves the
\* fetch button enabled; and a disabled fetch button is enabled again later,
\* the platform settling every await.
C31_LoadingEnds ==
    /\ [](ui.fetchBtn = "disabled" =>
            /\ controller \in DOMAIN requests
            /\ InFlight(requests[controller])
            /\ ~requests[controller].aborted)
    /\ [][\A r \in DOMAIN requests :
            (InFlight(requests[r]) /\ requests'[r].emitted # <<>>) =>
                ui'.fetchBtn = "enabled"]_vars
    /\ (ui.fetchBtn = "disabled" ~> ui.fetchBtn = "enabled")

\* A click overtook the request of init, its own request ended in an error,
\* and the fetch button is enabled again.
C31_Witness ==
    /\ Len(requests) = 2
    /\ requests[1].aborted
    /\ app.inits = 1
    /\ FetchHasFailed
    /\ ui.title = ErrorTitle
    /\ ui.fetchBtn = "enabled"

\* C32, as stated: with the save button enabled by the application and a
\* current post, the post displayed is the current one; while a call of
\* fetchRandomPost is pending, and after one has failed, the save button is
\* disabled. A button the application has not touched counts as disabled
\* here: the markup may have it so.
C32_NoStaleSave ==
    /\ (ui.saveBtn = "enabled" /\ currentPost # NoPost) => CurrentIsDisplayed
    /\ (\E r \in DOMAIN requests : InFlight(requests[r]) /\ ~requests[r].aborted) =>
           ui.saveBtn \in {"disabled", "markup"}
    /\ FetchHasFailed => ui.saveBtn = "disabled"

\* C32, amended: with the save button enabled by the application and a
\* current post, the post displayed is the current one; while the fetch
\* button is disabled, and after a fetch has failed, the save button is
\* disabled; a step that writes the store saves the post displayed; and
\* while there is no current post no step writes the store or shows a
\* notification.
C32_SavedPostIsDisplayed ==
    /\ []((ui.saveBtn = "enabled" /\ currentPost # NoPost) => CurrentIsDisplayed)
    /\ [](ui.fetchBtn = "disabled" => ui.saveBtn = "disabled")
    /\ [](FetchHasFailed => ui.saveBtn = "disabled")
    /\ [][/\ storage' # storage => (currentPost # NoPost /\ CurrentIsDisplayed)
          /\ currentPost = NoPost => (storage' = storage /\ notes' = notes)]_vars

\* The request of init is pending, and a post that arrived before init is
\* displayed, is the current post, and has been saved.
C32_Witness ==
    /\ app.inits = 1
    /\ Len(requests) = 2
    /\ InFlight(requests[2])
    /\ ~requests[2].aborted
    /\ ui.saveBtn = "enabled"
    /\ CurrentIsDisplayed
    /\ storage # NoItem
====
